---------------------------- MODULE Spec2Model ----------------------------
(***************************************************************************)
(* The upload and query handlers of src/app.py and src/app2.py, with their *)
(* collaborators: the vector store, the document processor, the answer     *)
(* generator and (app2.py) the Flask session that carries the query        *)
(* history.                                                                *)
(*                                                                         *)
(* Text is a sequence of one-character strings, so that joining and        *)
(* concatenation are computed as Python computes them.                     *)
(***************************************************************************)
EXTENDS Integers, Sequences, FiniteSets, TLC

VARIABLES
    prog,       \* which program is deployed: "app" (src/app.py) or "app2" (src/app2.py)
    index,      \* vector_store: the indexed chunks, in insertion order
    manuals,    \* the file names saved under UPLOAD_FOLDER
    cookie,     \* the client's session cookie: the session dict as last saved
    submitted,  \* history variable: the non-empty queries sent in this client session
    pc,         \* position of the request being handled: "idle", "search", "generate"
    req,        \* the request being handled, or the last one handled
    sess,       \* the session object of that request (app2.py)
    calls,      \* the collaborator calls that request has made, in order
    resp        \* the response to the last request handled

vars == <<prog, index, manuals, cookie, submitted, pc, req, sess, calls, resp>>

-----------------------------------------------------------------------------
(* Bounds of the model *)

MaxUploads == 2
MaxTurns == 3

(* Constants of the program *)

MaxHistory == 5
num_docs == 5
k_app == 3

-----------------------------------------------------------------------------
(* Inputs *)

None == "<None>"

Queries == { <<"x">>, <<"y">> }
QueryInputs == Queries \cup { <<>> }

\* data.get('product', None): absent, empty, or a label
FilterInputs == { None, "", "ds", "b_c" }

\* request.files['file'].filename; NoFile: no 'file' part in the request
NoFile == [base |-> None, ext |-> None]
EmptyName == [base |-> "", ext |-> None]
UploadInputs == { NoFile, EmptyName,
                  [base |-> "a", ext |-> "pdf"],
                  [base |-> "b c", ext |-> "PDF"],
                  [base |-> "c", ext |-> "exe"],
                  [base |-> "d", ext |-> None] }

\* request.form.get('product_name'): absent or a label
ProductInputs == { None, "DS" }

\* the number of chunks process_pdf cuts each document of the model into
ChunkCount(f) ==
    IF f.base = "a" THEN 3 ELSE 1

\* the order of similarity the embedding gives the indexed chunks for a query
Ranks == { "insertion", "reverse" }

NoHistory == [present |-> FALSE, history |-> <<>>]

-----------------------------------------------------------------------------
(* Python helpers *)

\* str.lower() on the labels and extensions of the model
Lower(s) ==
    CASE s = "DS" -> "ds"
      [] s = "PDF" -> "pdf"
      [] OTHER -> s

\* werkzeug's secure_filename on the names of the model: a space becomes "_"
secure_filename(f) ==
    IF f.base = "b c" THEN [f EXCEPT !.base = "b_c"] ELSE f

ALLOWED_EXTENSIONS == { "pdf", "txt", "docx" }

allowed_file(f) ==
    f.ext # None /\ Lower(f.ext) \in ALLOWED_EXTENSIONS

\* seq[-n:]
LastN(s, n) ==
    IF Len(s) <= n THEN s ELSE SubSeq(s, Len(s) - n + 1, Len(s))

\* seq[:-1]
AllButLast(s) ==
    IF Len(s) = 0 THEN s ELSE SubSeq(s, 1, Len(s) - 1)

\* seq[:n]
FirstN(s, n) ==
    IF Len(s) <= n THEN s ELSE SubSeq(s, 1, n)

Reverse(s) ==
    [i \in 1..Len(s) |-> s[Len(s) + 1 - i]]

RECURSIVE Join(_, _)
\* sep.join(parts)
Join(parts, sep) ==
    IF Len(parts) = 0 THEN <<>>
    ELSE IF Len(parts) = 1 THEN parts[1]
    ELSE parts[1] \o sep \o Join(Tail(parts), sep)

RECURSIVE SelectSeqBy(_, _)
\* the chunks of idx whose product is label, compared in lower case
SelectSeqBy(idx, label) ==
    IF Len(idx) = 0 THEN <<>>
    ELSE IF Lower(idx[1].product) = Lower(label)
         THEN <<idx[1]>> \o SelectSeqBy(Tail(idx), label)
         ELSE SelectSeqBy(Tail(idx), label)

-----------------------------------------------------------------------------
(* Collaborators whose code is not in src/ *)

\* utils.document_processor.process_pdf: n chunks, each tagged with the file
\* as its source and with the product label
process_pdf(filename, product_name, n) ==
    [i \in 1..n |-> [content |-> [doc |-> filename.base, position |-> i],
                     source |-> filename,
                     product |-> product_name]]

\* VectorStore.add_documents: append-only
add_documents(idx, chunks) ==
    idx \o chunks

Ranked(idx, rank) ==
    IF rank = "insertion" THEN idx ELSE Reverse(idx)

\* VectorStore.search: the k most similar chunks, most similar first
search(idx, rank, k) ==
    FirstN(Ranked(idx, rank), k)

\* VectorStore.search_by_product: search restricted to one product
search_by_product(idx, label, rank, k) ==
    FirstN(SelectSeqBy(Ranked(idx, rank), label), k)

RECURSIVE Dedup(_)
\* each element once, at its first occurrence
Dedup(s) ==
    IF Len(s) = 0 THEN <<>>
    ELSE <<s[1]>> \o Dedup(SelectSeq(Tail(s), LAMBDA x : x # s[1]))

SourcesOf(docs) ==
    [i \in 1..Len(docs) |-> docs[i].source]

\* GroqClient.generate_response of app2.py's client: the sources it names are
\* all of the chunks' sources, or none
GeneratedSources(docs) ==
    { Dedup(SourcesOf(docs)), <<>> }

-----------------------------------------------------------------------------
(* Responses *)

Response(status, body) ==
    [status |-> status, body |-> body]

NoResponse == Response(0, [pending |-> TRUE])

NoRequest == [kind |-> "none"]

NoSession == [present |-> FALSE, history |-> <<>>, modified |-> FALSE]

NotFoundText ==
    "I couldn't find any relevant information in the manuals. Please try rephrasing your question or check if manuals for this product have been uploaded."

\* app.py line 103, with str(e) in place
ApologyText(e) ==
    IF e = "SearchError"
    THEN "I'm sorry, I encountered an error while processing your query. Error: SearchError"
    ELSE "I'm sorry, I encountered an error while processing your query. Error: GenerationError"

Apology2Text == "I'm sorry, there was an error processing your request."

\* app.py lines 102-105
FallbackBody(e) ==
    [response |-> ApologyText(e), sources |-> <<>>]

\* app2.py lines 153-156
FallbackBody2(e) ==
    [response |-> Apology2Text, error |-> e]

-----------------------------------------------------------------------------
(* Initial state: the services are constructed, nothing is indexed, the     *)
(* client holds no session cookie.                                          *)

Init ==
    /\ prog \in { "app", "app2" }
    /\ index = <<>>
    /\ manuals = {}
    /\ cookie = NoHistory
    /\ submitted = <<>>
    /\ pc = "idle"
    /\ req = NoRequest
    /\ sess = NoSession
    /\ calls = <<>>
    /\ resp = NoResponse

-----------------------------------------------------------------------------
(* POST /upload *)

NumDocs(idx) ==
    Cardinality({ i \in DOMAIN idx : idx[i].content.position = 1 })

\* request.form.get('product_name', os.path.splitext(filename)[0])
ProductName(form_value, filename) ==
    IF form_value = None THEN filename.base ELSE form_value

\* the calls of the try block: process_pdf, and add_documents once it returned
UploadCalls(filename, product_name, chunks, ok) ==
    IF ok
    THEN << [op |-> "process_pdf", file |-> filename, product |-> product_name,
             raised |-> FALSE],
            [op |-> "add_documents", chunks |-> chunks, raised |-> FALSE] >>
    ELSE << [op |-> "process_pdf", file |-> filename, product |-> product_name,
             raised |-> TRUE] >>

\* a variant that indexes the first chunk before the document is known to be whole
IndexAfterUpload_Partial(idx, chunks, ok) ==
    IF ok THEN add_documents(idx, chunks) ELSE add_documents(idx, FirstN(chunks, 1))

\* the vector store after the try block
IndexAfterUpload(idx, chunks, ok) ==
    IF ok THEN add_documents(idx, chunks) ELSE idx

\* the handler's steps on an allowed file; both programs run the same ones
Ingest(f, form_product, n, ok, okMessage) ==
    LET filename == secure_filename(f)
        product_name == ProductName(form_product, filename)
        chunks == process_pdf(filename, product_name, n)
    IN  /\ manuals' = manuals \cup { filename }
        /\ calls' = UploadCalls(filename, product_name, chunks, ok)
        /\ index' = IndexAfterUpload(index, chunks, ok)
        /\ resp' = IF ok
                   THEN Response(200, [success |-> TRUE, message |-> okMessage])
                   ELSE Response(500, [error |-> "IngestionError"])

UploadRejected(f) ==
    /\ resp' = IF f = NoFile THEN Response(400, [error |-> "No file part"])
               ELSE IF f = EmptyName THEN Response(400, [error |-> "No file selected"])
               ELSE Response(400, [error |-> "File type not allowed"])
    /\ calls' = <<>>
    /\ UNCHANGED <<index, manuals>>

\* src/app.py upload_file, lines 39-62
upload_file(f, form_product) ==
    /\ prog = "app"
    /\ pc = "idle"
    /\ NumDocs(index) < MaxUploads
    /\ req' = [kind |-> "upload", file |-> f, product_name |-> form_product]
    /\ IF f # NoFile /\ f # EmptyName /\ allowed_file(f)
       THEN \E ok \in BOOLEAN :
                Ingest(f, form_product, ChunkCount(f), ok, "processed successfully")
       ELSE UploadRejected(f)
    /\ UNCHANGED <<prog, cookie, submitted, pc, sess>>

\* src/app2.py upload_file, lines 61-93
upload_file2(f, form_product) ==
    /\ prog = "app2"
    /\ pc = "idle"
    /\ NumDocs(index) < MaxUploads
    /\ req' = [kind |-> "upload", file |-> f, product_name |-> form_product]
    /\ IF f # NoFile /\ f # EmptyName /\ allowed_file(f)
       THEN \E ok \in BOOLEAN :
                Ingest(f, form_product, ChunkCount(f), ok, "processed with chunks")
       ELSE UploadRejected(f)
    /\ UNCHANGED <<prog, cookie, submitted, pc, sess>>

-----------------------------------------------------------------------------
(* POST /query of src/app.py *)

WellFormed(doc) ==
    "content" \in DOMAIN doc /\ "source" \in DOMAIN doc

RECURSIVE ContextOf(_)
\* lines 77-85: one "\nFrom {source}:\n{content}\n\n" block per result, in order
ContextOf(docs) ==
    IF Len(docs) = 0 THEN <<>>
    ELSE (IF WellFormed(docs[1])
          THEN << [from |-> docs[1].source, text |-> docs[1].content] >>
          ELSE <<>>) \o ContextOf(Tail(docs))

RECURSIVE SourcesListOf(_)
\* lines 78-85: sources.append(doc['source']) for each result
SourcesListOf(docs) ==
    IF Len(docs) = 0 THEN <<>>
    ELSE (IF WellFormed(docs[1]) THEN << docs[1].source >> ELSE <<>>)
         \o SourcesListOf(Tail(docs))

\* line 88: generate_response(query_text, context)
GenerateCall1(r, raised) ==
    [op |-> "generate_response", question |-> r.query,
     context |-> ContextOf(r.docs), raised |-> raised]

\* lines 66-70
query_begin(q) ==
    /\ prog = "app"
    /\ pc = "idle"
    /\ req' = [kind |-> "query", query |-> q, product |-> None, prior |-> <<>>,
               enhanced |-> q, searched |-> FALSE, docs |-> <<>>]
    /\ calls' = <<>>
    /\ IF q = <<>>
       THEN /\ resp' = Response(400, [error |-> "Query is empty"])
            /\ pc' = "idle"
       ELSE /\ resp' = NoResponse
            /\ pc' = "search"
    /\ UNCHANGED <<prog, index, manuals, cookie, submitted, sess>>

\* line 74, and lines 98-105 when the search raises
query_search(rank) ==
    /\ prog = "app"
    /\ pc = "search"
    /\ \/ /\ calls' = Append(calls, [op |-> "search", query |-> req.query, k |-> k_app,
                                     raised |-> FALSE])
          /\ req' = [req EXCEPT !.searched = TRUE, !.docs = search(index, rank, k_app)]
          /\ pc' = "generate"
          /\ resp' = resp
       \/ /\ calls' = Append(calls, [op |-> "search", query |-> req.query, k |-> k_app,
                                     raised |-> TRUE])
          /\ resp' = Response(500, FallbackBody("SearchError"))
          /\ pc' = "idle"
          /\ req' = req
    /\ UNCHANGED <<prog, index, manuals, cookie, submitted, sess>>

\* lines 76-97, and lines 98-105 when the generator raises
query_generate ==
    /\ prog = "app"
    /\ pc = "generate"
    /\ \/ /\ calls' = Append(calls, GenerateCall1(req, FALSE))
          /\ resp' = Response(200, [response |-> "answer",
                                    sources |-> SourcesListOf(req.docs)])
       \/ /\ calls' = Append(calls, GenerateCall1(req, TRUE))
          /\ resp' = Response(500, FallbackBody("GenerationError"))
    /\ pc' = "idle"
    /\ UNCHANGED <<prog, index, manuals, cookie, submitted, req, sess>>

-----------------------------------------------------------------------------
(* POST /query of src/app2.py *)

\* "\n\nCurrent question: "
Marker ==
    << "\n", "\n", "C", "u", "r", "r", "e", "n", "t", " ",
       "q", "u", "e", "s", "t", "i", "o", "n", ":", " " >>

\* flask.session is the default cookie session (SecureCookieSession; app2.py
\* sets a secret key and no other session interface). The request gets the
\* dict the client's cookie carried. Assigning a key of the dict marks the
\* session modified; changing a list held in it (list.append) does not.
LoadSession(c) ==
    [present |-> c.present, history |-> c.history, modified |-> FALSE]

\* a variant that never drops the oldest entry
HistoryUpdate_NoTruncate(s, query_text) ==
    LET s1 == IF ~s.present
              THEN [present |-> TRUE, history |-> <<>>, modified |-> TRUE]
              ELSE s
    IN  [s1 EXCEPT !.history = Append(@, query_text)]

\* a variant that leaves the append to the end of the request
HistoryUpdate_Deferred(s, query_text) ==
    IF ~s.present
    THEN [present |-> TRUE, history |-> <<>>, modified |-> TRUE]
    ELSE s

\* lines 109-115
HistoryUpdate(s, query_text) ==
    LET s1 == IF ~s.present
              THEN [present |-> TRUE, history |-> <<>>, modified |-> TRUE]
              ELSE s
        s2 == [s1 EXCEPT !.history = Append(@, query_text)]
    IN  IF Len(s2.history) > MaxHistory
        THEN [s2 EXCEPT !.history = LastN(@, MaxHistory), !.modified = TRUE]
        ELSE s2

\* a variant that prefixes the marker on the first turn too
EnhancedQuery_AlwaysPrefixed(history, query_text) ==
    Join(AllButLast(history), << " " >>) \o Marker \o query_text

\* lines 118-121
EnhancedQuery(history, query_text) ==
    IF Len(history) > 1
    THEN Join(AllButLast(history), << " " >>) \o Marker \o query_text
    ELSE query_text

\* With the response Flask writes the session cookie only when the session
\* was marked modified (app2.py neither sets session.modified nor makes the
\* session permanent); otherwise the client keeps the cookie it sent.
SaveSession(c, s) ==
    IF s.modified THEN [present |-> s.present, history |-> s.history] ELSE c

Truthy(product_filter) ==
    product_filter # None /\ product_filter # ""

\* lines 126-129: the search call and what it returns
SearchCall(r, raised) ==
    IF Truthy(r.product)
    THEN [op |-> "search_by_product", query |-> r.enhanced, product |-> r.product,
          k |-> num_docs, raised |-> raised]
    ELSE [op |-> "search", query |-> r.enhanced, k |-> num_docs, raised |-> raised]

\* a variant that fills up a short filtered result from the unfiltered search
Retrieve_Padded(idx, r, rank) ==
    IF Truthy(r.product)
    THEN FirstN(search_by_product(idx, r.product, rank, num_docs)
                    \o search(idx, rank, num_docs), num_docs)
    ELSE search(idx, rank, num_docs)

Retrieve(idx, r, rank) ==
    IF Truthy(r.product)
    THEN search_by_product(idx, r.product, rank, num_docs)
    ELSE search(idx, rank, num_docs)

\* a variant that asks the generator the enhanced query
GenerateCall_Enhanced(r, raised) ==
    [op |-> "generate_response", question |-> r.enhanced, docs |-> r.docs,
     product_name |-> r.product, raised |-> raised]

\* lines 140-144
GenerateCall(r, raised) ==
    [op |-> "generate_response", question |-> r.query, docs |-> r.docs,
     product_name |-> r.product, raised |-> raised]

\* lines 99-121
query2_begin(q, p) ==
    /\ prog = "app2"
    /\ pc = "idle"
    /\ calls' = <<>>
    /\ IF q = <<>>
       THEN /\ req' = [kind |-> "query", query |-> q, product |-> p,
                       prior |-> cookie.history, enhanced |-> q,
                       searched |-> FALSE, docs |-> <<>>]
            /\ sess' = LoadSession(cookie)
            /\ resp' = Response(400, [error |-> "Query is empty"])
            /\ pc' = "idle"
            /\ UNCHANGED submitted
       ELSE /\ Len(submitted) < MaxTurns
            /\ sess' = HistoryUpdate(LoadSession(cookie), q)
            /\ req' = [kind |-> "query", query |-> q, product |-> p,
                       prior |-> cookie.history,
                       enhanced |-> EnhancedQuery(sess'.history, q),
                       searched |-> FALSE, docs |-> <<>>]
            /\ submitted' = Append(submitted, q)
            /\ resp' = NoResponse
            /\ pc' = "search"
    /\ UNCHANGED <<prog, index, manuals, cookie>>

\* lines 126-137, and lines 151-156 when the search raises
query2_search(rank) ==
    /\ prog = "app2"
    /\ pc = "search"
    /\ \/ /\ Retrieve(index, req, rank) # <<>>
          /\ calls' = Append(calls, SearchCall(req, FALSE))
          /\ req' = [req EXCEPT !.searched = TRUE, !.docs = Retrieve(index, req, rank)]
          /\ pc' = "generate"
          /\ UNCHANGED <<resp, cookie>>
       \/ /\ Retrieve(index, req, rank) = <<>>
          /\ calls' = Append(calls, SearchCall(req, FALSE))
          /\ req' = [req EXCEPT !.searched = TRUE]
          /\ resp' = Response(200, [response |-> NotFoundText, sources |-> <<>>])
          /\ cookie' = SaveSession(cookie, sess)
          /\ pc' = "idle"
       \/ /\ calls' = Append(calls, SearchCall(req, TRUE))
          /\ resp' = Response(500, FallbackBody2("SearchError"))
          /\ cookie' = SaveSession(cookie, sess)
          /\ pc' = "idle"
          /\ req' = req
    /\ UNCHANGED <<prog, index, manuals, submitted, sess>>

\* lines 140-149, and lines 151-156 when the generator raises
query2_generate ==
    /\ prog = "app2"
    /\ pc = "generate"
    /\ \/ /\ calls' = Append(calls, GenerateCall(req, FALSE))
          /\ \E srcs \in GeneratedSources(req.docs) :
                resp' = Response(200, [response |-> "answer", sources |-> srcs])
       \/ /\ calls' = Append(calls, GenerateCall(req, TRUE))
          /\ resp' = Response(500, FallbackBody2("GenerationError"))
    /\ cookie' = SaveSession(cookie, sess)
    /\ pc' = "idle"
    /\ UNCHANGED <<prog, index, manuals, submitted, req, sess>>

\* the client starts a new session: it sends no cookie
new_session ==
    /\ prog = "app2"
    /\ pc = "idle"
    /\ cookie.present
    /\ cookie' = NoHistory
    /\ submitted' = <<>>
    /\ UNCHANGED <<prog, index, manuals, pc, req, sess, calls, resp>>

-----------------------------------------------------------------------------

Next ==
    \/ \E f \in UploadInputs, p \in ProductInputs : upload_file(f, p)
    \/ \E f \in UploadInputs, p \in ProductInputs : upload_file2(f, p)
    \/ \E q \in QueryInputs : query_begin(q)
    \/ \E rank \in Ranks : query_search(rank)
    \/ query_generate
    \/ \E q \in QueryInputs, p \in FilterInputs : query2_begin(q, p)
    \/ \E rank \in Ranks : query2_search(rank)
    \/ query2_generate
    \/ new_session

Spec == Init /\ [][Next]_vars

-----------------------------------------------------------------------------
(* The query handler of src/app2.py entered with a session that already     *)
(* holds a history of up to MaxHistory queries, over an index that holds    *)
(* nothing or one document.                                                 *)

RECURSIVE SeqsUpTo(_, _)
SeqsUpTo(S, n) ==
    IF n = 0 THEN { <<>> }
    ELSE LET shorter == SeqsUpTo(S, n - 1)
         IN  shorter \cup { Append(h, x) : h \in shorter, x \in S }

OneDocument ==
    process_pdf([base |-> "a", ext |-> "pdf"], "DS", 3)

InitSession ==
    /\ prog = "app2"
    /\ index \in { <<>>, OneDocument }
    /\ manuals = { index[i].source : i \in DOMAIN index }
    /\ cookie \in { NoHistory } \cup
                  { [present |-> TRUE, history |-> h] :
                        h \in SeqsUpTo(Queries, MaxHistory) \ { <<>> } }
    /\ submitted = <<>>
    /\ pc = "idle"
    /\ req = NoRequest
    /\ sess = NoSession
    /\ calls = <<>>
    /\ resp = NoResponse

NextSession ==
    \/ \E q \in QueryInputs, p \in FilterInputs : query2_begin(q, p)
    \/ \E rank \in Ranks : query2_search(rank)
    \/ query2_generate

SpecSession == InitSession /\ [][NextSession]_vars

-----------------------------------------------------------------------------
(* Properties *)

HasCall(op) ==
    \E i \in DOMAIN calls : calls[i].op = op

Raised ==
    \E i \in DOMAIN calls : calls[i].raised

\* a query request with non-empty text is being handled or was the last handled
IsQuery ==
    req.kind = "query" /\ req.query # <<>>

IsQuery2 ==
    prog = "app2" /\ IsQuery

NotFoundBody ==
    [response |-> NotFoundText, sources |-> <<>>]

\* C1: in both programs, a query whose search returned nothing is answered
\* with the not-found response and no sources, and the generator is not called.
C1_EmptySearchIsNotFound ==
    (IsQuery /\ req.searched /\ req.docs = <<>>) =>
        /\ ~HasCall("generate_response")
        /\ pc = "idle" => resp.body = NotFoundBody

\* C2: after the queries of a client session, the session's history is the
\* last five of them, in the order sent.
C2_HistoryIsLastQueries ==
    (prog = "app2" /\ pc = "idle") =>
        /\ Len(cookie.history) <= MaxHistory
        /\ cookie.history = LastN(submitted, MaxHistory)

\* C3 as claimed: with fewer than two entries in the history before the new
\* query, the enhanced query is the raw query.
C3_RawBelowTwoEntries ==
    (IsQuery2 /\ Len(req.prior) < 2) => req.enhanced = req.query

\* C3 as amended: with no entry in the history before the new query, the
\* enhanced query is the raw query; with one entry, it is that entry, the
\* marker, then the raw query.
C3_RawOnEmptyHistory ==
    IsQuery2 =>
        /\ Len(req.prior) = 0 => req.enhanced = req.query
        /\ Len(req.prior) = 1 => req.enhanced = req.prior[1] \o Marker \o req.query

C3_Witness ==
    IsQuery2 /\ pc = "search" /\ req.prior = <<>> /\ req.enhanced = << "x" >>

C5_GeneratorGetsRawQuery ==
    IsQuery2 =>
        \A i \in DOMAIN calls :
            /\ calls[i].op = "generate_response" => calls[i].question = req.query
            /\ calls[i].op \in { "search", "search_by_product" } =>
                  calls[i].query = req.enhanced

C5_Witness ==
    /\ IsQuery2
    /\ HasCall("generate_response")
    /\ req.enhanced # req.query

Matches(chunk, label) ==
    Lower(chunk.product) = Lower(label)

\* C6: a query with a product label searches by product only; the chunks
\* given to the generator are at most five and all of that product; a label
\* no chunk carries gives the not-found response.
C6_FilteredRetrievalOnly ==
    (IsQuery2 /\ Truthy(req.product)) =>
        /\ \A i \in DOMAIN calls :
              /\ calls[i].op # "search"
              /\ calls[i].op = "search_by_product" => calls[i].product = req.product
              /\ calls[i].op = "generate_response" =>
                    /\ Len(calls[i].docs) <= 5
                    /\ \A j \in DOMAIN calls[i].docs :
                          Matches(calls[i].docs[j], req.product)
        /\ ( /\ pc = "idle"
             /\ ~Raised
             /\ \A j \in DOMAIN index : ~Matches(index[j], req.product) )
           => resp = Response(200, NotFoundBody)

C6_Witness ==
    /\ IsQuery2
    /\ req.product = "ds"
    /\ HasCall("generate_response")
    /\ Len(req.docs) < num_docs
    /\ \E j \in DOMAIN index : ~Matches(index[j], req.product)
    /\ \E j \in DOMAIN req.docs : req.docs[j].product = "DS"

ProcessingFailed(c) ==
    \E i \in DOMAIN c : c[i].op = "process_pdf" /\ c[i].raised

\* C7: an upload whose document processing fails leaves the index as it was,
\* calls add_documents not at all and answers with the error; add_documents
\* is called only with the chunks of a document processed to the end.
\* (The steps concerned are those of upload_file on an allowed file: they
\* start idle and leave an upload request with its calls.)
C7_FailedUploadLeavesIndex ==
    [][ (pc = "idle" /\ req'.kind = "upload" /\ calls' # <<>>
         /\ <<req, calls, resp, index, manuals>> # <<req', calls', resp', index', manuals'>>) =>
           /\ ProcessingFailed(calls') =>
                 /\ index' = index
                 /\ \A i \in DOMAIN calls' : calls'[i].op # "add_documents"
                 /\ resp' = Response(500, [error |-> "IngestionError"])
           /\ \A i \in DOMAIN calls' :
                 calls'[i].op = "add_documents" =>
                    /\ i > 1
                    /\ calls'[i - 1].op = "process_pdf"
                    /\ ~calls'[i - 1].raised
                    /\ index' = index \o calls'[i].chunks
           /\ ~ProcessingFailed(calls') => index' # index
       ]_vars

C7_Witness ==
    /\ req.kind = "upload"
    /\ ProcessingFailed(calls)
    /\ Len(index) = 3
    /\ resp.status = 500

\* C8: a query that fails inside the handler is answered with a body holding
\* an apology as response and an empty sources list, and a status outside 2xx.
C8_FallbackHasEmptySources ==
    (IsQuery /\ pc = "idle" /\ Raised) =>
        /\ resp.status \notin 200..299
        /\ "response" \in DOMAIN resp.body
        /\ "sources" \in DOMAIN resp.body
        /\ resp.body.sources = <<>>

\* C9: app.py returns each source once, in the order of first occurrence, and
\* gives the generator the results' contents in order, each under its source.
C9_SourcesAreDeduplicated ==
    (prog = "app" /\ IsQuery /\ pc = "idle" /\ resp.status = 200) =>
        /\ resp.body.sources = Dedup(SourcesOf(req.docs))
        /\ \A i \in DOMAIN calls :
              calls[i].op = "generate_response" =>
                 calls[i].context =
                    [j \in DOMAIN req.docs |->
                        [from |-> req.docs[j].source, text |-> req.docs[j].content]]

\* C10: from before the search call to the end of the request, whatever its
\* outcome, the request's session holds the history with the new query
\* appended and cut to its last five entries.
C10_HistoryUpdatedBeforeSearch ==
    IsQuery2 =>
        /\ sess.present
        /\ sess.history = LastN(Append(req.prior, req.query), MaxHistory)
        /\ pc = "search" => calls = <<>>

C10_Witness ==
    /\ IsQuery2
    /\ pc = "idle"
    /\ Raised
    /\ Len(req.prior) = 1
    /\ sess.history = Append(req.prior, req.query)

=============================================================================
